---- MODULE Spec2Model ----
(***************************************************************************)
(* learn2learn/data/task_generator.py: MetaDataset (label index),          *)
(* LabelEncoder, TaskGenerator (task store, episode sampler, cursor) and   *)
(* NShotKWayTaskSampler (interleaved index batches).                       *)
(*                                                                         *)
(* Record positions are Python positions (0-based); TLA+ sequences are     *)
(* 1-based, so position p of a Python list xs is xs[p + 1].  Features are  *)
(* opaque and never inspected by the code, so a record is identified by    *)
(* its position and the record collection is the sequence of its labels.   *)
(***************************************************************************)
EXTENDS Integers, Sequences, FiniteSets, TLC

VARIABLES dataset, meta, tg, ret, sampler, out, trav

vars == <<dataset, meta, tg, ret, sampler, out, trav>>

\* ---------------------------------------------------------------- bounds
MaxLabel == 2
MaxRecords == 4
MaxGenRecords == 4
MaxWays == 2
MaxShots == 2
MaxClasses == 2
MaxTasks == 1
MaxTaskLen == 2
MaxQuery == 1
MaxEpisodes == 1

Labels == 0..MaxLabel

\* ------------------------------------------------------- generic helpers
Range(s) == {s[i] : i \in DOMAIN s}

NoDup(s) == \A i, j \in DOMAIN s : i # j => s[i] # s[j]

SeqsUpTo(S, n) == UNION {[1..k -> S] : k \in 0..n}

\* optional argument: Python None or a value
NoneOpt == [none |-> TRUE, val |-> 0]
Some(v) == [none |-> FALSE, val |-> v]
NoneList == [none |-> TRUE, val |-> <<>>]

\* sequences of k pairwise distinct positions (0-based) of a list of length n:
\* the first k entries of a random permutation / a draw without replacement
InjPos(n, k) == {q \in [1..k -> 0..(n - 1)] : NoDup(q)}

\* ------------------------------------------------------------ MetaDataset
\* defaultdict(list) with insertion-ordered keys
EmptyDict == [keys |-> <<>>, map |-> <<>>]

DictHas(d, k) == \E i \in DOMAIN d.keys : d.keys[i] = k

KeyPos(d, k) == CHOOSE i \in DOMAIN d.keys : d.keys[i] = k

DictGet(d, k) == d.map[KeyPos(d, k)]

\* classes_to_indices[label].append(i)
DictAppend(d, k, i) ==
    IF DictHas(d, k)
    THEN [d EXCEPT !.map[KeyPos(d, k)] = Append(@, i)]
    ELSE [keys |-> Append(d.keys, k), map |-> Append(d.map, <<i>>)]

RECURSIVE ScanFrom(_, _, _)
ScanFrom(ds, i, d) ==
    IF i >= Len(ds) THEN d
    ELSE ScanFrom(ds, i + 1, DictAppend(d, ds[i + 1], i))

\* the scan started one record late
get_dict_skip_first(ds) == ScanFrom(ds, 1, EmptyDict)

get_dict_of_labels_to_indices(ds) == ScanFrom(ds, 0, EmptyDict)

\* MetaDataset(dataset) with labels_to_indices=None
MetaDataset(ds) ==
    LET d == get_dict_of_labels_to_indices(ds)
    IN [built |-> TRUE, labels_to_indices |-> d, labels |-> d.keys]

NoMeta == [built |-> FALSE, labels_to_indices |-> EmptyDict, labels |-> <<>>]

\* ----------------------------------------------------------- LabelEncoder
\* class_to_idx after the enumerate loop: a later duplicate overwrites
LastIdx(classes, c) ==
    CHOOSE i \in DOMAIN classes :
        classes[i] = c /\ \A j \in DOMAIN classes : classes[j] = c => j <= i

\* the encoding started from 1
LabelEncoder_from1(classes) ==
    [ok |-> Cardinality(Range(classes)) = Len(classes),
     class_to_idx |-> [c \in Range(classes) |-> LastIdx(classes, c)]]

LabelEncoder(classes) ==
    [ok |-> Cardinality(Range(classes)) = Len(classes),
     class_to_idx |-> [c \in Range(classes) |-> LastIdx(classes, c) - 1]]

\* ---------------------------------------------------------- TaskGenerator
\* itertools.permutations(pool, r): tuples of r distinct positions of pool,
\* in lexicographic order of the positions
RECURSIVE PermsFrom(_, _, _, _)
PermsFrom(pool, r, prefix, i) ==
    IF Len(prefix) = r THEN <<[k \in 1..r |-> pool[prefix[k]]]>>
    ELSE IF i > Len(pool) THEN <<>>
    ELSE (IF i \in Range(prefix) THEN <<>>
          ELSE PermsFrom(pool, r, Append(prefix, i), 1))
         \o PermsFrom(pool, r, prefix, i + 1)

\* the enumeration made order-insensitive (combinations)
RECURSIVE CombsFrom(_, _, _, _)
CombsFrom(pool, r, prefix, i) ==
    IF Len(prefix) = r THEN <<[k \in 1..r |-> pool[prefix[k]]]>>
    ELSE IF i > Len(pool) THEN <<>>
    ELSE CombsFrom(pool, r, Append(prefix, i), i + 1)
         \o CombsFrom(pool, r, prefix, i + 1)

combinations(pool, r) == CombsFrom(pool, r, <<>>, 1)

permutations(pool, r) == PermsFrom(pool, r, <<>>, 1)

\* random.sample(self.classes, k=self.ways): ways distinct positions
get_samples(classes, ways) ==
    {[k \in 1..ways |-> classes[q[k] + 1]] : q \in InjPos(Len(classes), ways)}

generate_n_tasks(classes, ways, n) ==
    IF n <= 0 THEN {<<>>} ELSE [1..n -> get_samples(classes, ways)]

_check_classes(classes, labels) == Range(classes) \ Range(labels) = {}

_check_task(task, classes) ==
    /\ Range(task) \ Range(classes) = {}
    /\ Cardinality(Range(task)) - Len(task) = 0

_check_tasks(tasks, classes) ==
    \A i \in DOMAIN tasks : _check_task(tasks[i], classes)

NoTG == [state |-> "none", ways |-> 0, shots |-> NoneOpt, classes |-> <<>>,
         tasks |-> <<>>, tasks_idx |-> 0]

FailedTG == [NoTG EXCEPT !.state = "failed"]

\* the task lists the three modes of __init__ can store
TaskModes(classes, ways, tasksArg) ==
    IF tasksArg.kind = "none" THEN {permutations(classes, ways)}
    ELSE IF tasksArg.kind = "int"
         THEN generate_n_tasks(classes, ways, tasksArg.n)
         ELSE {tasksArg.list}

\* TaskGenerator.__init__: the set of outcomes <<object, raised error>>
TaskGeneratorInit(m, waysArg, shotsArg, classesArg, tasksArg) ==
    LET classes == IF classesArg.none THEN m.labels ELSE classesArg.val
    IN  IF ~(Len(classes) >= waysArg) THEN {<<FailedTG, "AssertionError">>}
        ELSE IF ~_check_classes(classes, m.labels)
             THEN {<<FailedTG, "AssertionError">>}
        ELSE IF tasksArg.kind = "other" THEN {<<FailedTG, "TypeError">>}
        ELSE {IF _check_tasks(ts, classes)
              THEN <<[state |-> "ok", ways |-> waysArg, shots |-> shotsArg,
                      classes |-> classes, tasks |-> ts, tasks_idx |-> 0],
                     "ok">>
              ELSE <<FailedTG, "AssertionError">>
              : ts \in TaskModes(classes, waysArg, tasksArg)}

\* the draw made with replacement
choice_replace(population, shots) ==
    IF shots < 0 \/ (shots > 0 /\ Len(population) = 0) THEN {}
    ELSE {[k \in 1..shots |-> population[q[k] + 1]] :
              q \in [1..shots -> 0..(Len(population) - 1)]}

\* the draw clamped to the population instead of raising
choice_clamp(population, shots) ==
    IF shots < 0 THEN {}
    ELSE {[k \in DOMAIN q |-> population[q[k] + 1]] :
              q \in InjPos(Len(population),
                           IF shots <= Len(population) THEN shots
                           ELSE Len(population))}

\* np.random.choice(population, shots, replace=False) for each outcome;
\* empty when numpy raises ValueError
choice(population, shots) ==
    IF shots < 0 \/ shots > Len(population) THEN {}
    ELSE {[k \in 1..shots |-> population[q[k] + 1]] :
              q \in InjPos(Len(population), shots)}

\* np.full(shots, fill_value=v)
full(shots, v) == [k \in 1..shots |-> v]

NoEpisode == [data_indices |-> <<>>, label |-> <<>>, sampled_task |-> <<>>]

\* what the last call left: the operation, how it ended (ok or the exception
\* raised), the cursor position it read (at), the shots and the task its draw
\* loop ran with, the episode returned, an integer result (value) and, for
\* __init__, the kind of its tasks argument (arg)
Ret(op, status, at, shots, task, ep, value, arg) ==
    [op |-> op, status |-> status, at |-> at, shots |-> shots,
     task_to_sample |-> task, episode |-> ep, value |-> value, arg |-> arg]

NoRet == Ret("none", "ok", 0, 0, <<>>, NoEpisode, 0, "")

\* the loop of sample over the classes i.. of the task: every
\* <<data_indices, data_labels>> the two extend calls can append
RECURSIVE DrawLoop(_, _, _, _, _)
DrawLoop(m, task, enc, shots, i) ==
    IF i > Len(task) THEN {<<<<>>, <<>>>>}
    ELSE LET drawn == choice(DictGet(m.labels_to_indices, task[i]), shots)
             labels == full(shots, enc.class_to_idx[task[i]])
         IN  IF drawn = {} THEN {}
             ELSE {<<d \o rest[1], labels \o rest[2]>> :
                      d \in drawn, rest \in DrawLoop(m, task, enc, shots, i + 1)}

\* the episodes sample can return for a task
Episodes(m, task, shots) ==
    {[data_indices |-> dl[1], label |-> dl[2], sampled_task |-> task] :
        dl \in DrawLoop(m, task, LabelEncoder(task), shots, 1)}

\* some class of the task has fewer than shots positions (numpy raises)
Insufficient(m, task, shots) ==
    \E i \in DOMAIN task :
        choice(DictGet(m.labels_to_indices, task[i]), shots) = {}

\* TaskGenerator.sample(shots, task): the set of outcomes
\* <<status, shots, task_to_sample, episode>>
sample(g, m, shotsArg, taskArg) ==
    IF shotsArg.none /\ g.shots.none
    THEN {<<"ValueError", 0, <<>>, NoEpisode>>}
    ELSE
      LET shots == IF shotsArg.none THEN g.shots.val ELSE shotsArg.val
          cands == IF taskArg.none
                   THEN {g.tasks[r + 1] : r \in 0..(Len(g.tasks) - 1)}
                   ELSE {taskArg.val}
      IN  IF taskArg.none /\ Len(g.tasks) = 0
          THEN {<<"ValueError", shots, <<>>, NoEpisode>>}
          ELSE IF ~taskArg.none /\ ~_check_task(taskArg.val, g.classes)
          THEN {<<"AssertionError", shots, <<>>, NoEpisode>>}
          ELSE UNION {IF ~LabelEncoder(t).ok
                      THEN {<<"AssertionError", shots, <<>>, NoEpisode>>}
                      ELSE IF Insufficient(m, t, shots)
                      THEN {<<"ValueError", shots, t, NoEpisode>>}
                      ELSE {<<"ok", shots, t, e>> : e \in Episodes(m, t, shots)}
                      : t \in cands}

\* the traversal ended one task early
next_stop_early(g, m) ==
    IF g.tasks_idx >= Len(g.tasks) - 1
    THEN {<<"StopIteration", 0, <<>>, NoEpisode, g.tasks_idx>>}
    ELSE {<<o[1], o[2], o[3], o[4],
            IF o[1] = "ok" THEN g.tasks_idx + 1 ELSE g.tasks_idx>> :
              o \in sample(g, m, NoneOpt, Some(g.tasks[g.tasks_idx + 1]))}

\* an advance that steps over a task it failed to sample
next_skip_failed(g, m) ==
    IF g.tasks_idx >= Len(g.tasks)
    THEN {<<"StopIteration", 0, <<>>, NoEpisode, g.tasks_idx>>}
    ELSE {<<o[1], o[2], o[3], o[4], g.tasks_idx + 1>> :
            o \in sample(g, m, NoneOpt, Some(g.tasks[g.tasks_idx + 1]))}

\* TaskGenerator.__next__: the set of outcomes
\* <<status, shots, task_to_sample, episode, tasks_idx'>>
next(g, m) ==
    IF g.tasks_idx >= Len(g.tasks)
    THEN {<<"StopIteration", 0, <<>>, NoEpisode, g.tasks_idx>>}
    ELSE {<<o[1], o[2], o[3], o[4],
            IF o[1] = "ok" THEN g.tasks_idx + 1 ELSE g.tasks_idx>> :
              o \in sample(g, m, NoneOpt, Some(g.tasks[g.tasks_idx + 1]))}

\* ------------------------------------------------- NShotKWayTaskSampler
NoSampler == [state |-> "none", episodes |-> 0, ways |-> 0,
              fixed_classes |-> NoneList, total_subset_len |-> 0,
              index_list |-> <<>>, running |-> FALSE, i_batch |-> 0]

FailedSampler == [NoSampler EXCEPT !.state = "failed"]

NoArgs == [ways |-> 0, shots |-> 0, query |-> 0, fixed_classes |-> NoneList]

\* what the last call on the sampler left: the operation, how it ended, the
\* arguments of __init__ (args), the classes and the per-class positions the
\* round drew (rows), the batch yielded and an integer result (value)
NoOut == [op |-> "none", status |-> "ok", args |-> NoArgs, classes |-> <<>>,
          rows |-> <<>>, batch |-> <<>>, value |-> 0]

Min(a, b) == IF a <= b THEN a ELSE b

MaxOf(S) == CHOOSE x \in S : \A y \in S : y <= x

\* (label == i).nonzero().reshape(-1): the positions holding id i, increasing
RECURSIVE nonzero(_, _, _)
nonzero(label, i, p) ==
    IF p >= Len(label) THEN <<>>
    ELSE (IF label[p + 1] = i THEN <<p>> ELSE <<>>) \o nonzero(label, i, p + 1)

\* fixed_classes tested for truth instead of for None
NShotKWayTaskSamplerInit_truthy(label, episodes, ways, shots, query, fixed_classes) ==
    IF ~fixed_classes.none /\ Len(fixed_classes.val) > 0
    THEN <<FailedSampler, "ValueError">>
    ELSE IF shots < 1 THEN <<FailedSampler, "ValueError">>
    ELSE IF ways > Cardinality(Range(label)) THEN <<FailedSampler, "ValueError">>
    ELSE IF Len(label) = 0 THEN <<FailedSampler, "ValueError">>
    ELSE <<[state |-> "ok", episodes |-> episodes, ways |-> ways,
            fixed_classes |-> fixed_classes,
            total_subset_len |-> shots + query,
            index_list |-> [k \in 1..(MaxOf(Range(label)) + 1) |->
                               nonzero(label, k - 1, 0)],
            running |-> FALSE, i_batch |-> 0], "ok">>

\* NShotKWayTaskSampler.__init__: <<object, raised error>>
NShotKWayTaskSamplerInit(label, episodes, ways, shots, query, fixed_classes) ==
    IF ~fixed_classes.none THEN <<FailedSampler, "ValueError">>
    ELSE IF shots < 1 THEN <<FailedSampler, "ValueError">>
    ELSE IF ways > Cardinality(Range(label)) THEN <<FailedSampler, "ValueError">>
    ELSE IF Len(label) = 0 THEN <<FailedSampler, "ValueError">>
    ELSE <<[state |-> "ok", episodes |-> episodes, ways |-> ways,
            fixed_classes |-> fixed_classes,
            total_subset_len |-> shots + query,
            index_list |-> [k \in 1..(MaxOf(Range(label)) + 1) |->
                               nonzero(label, k - 1, 0)],
            running |-> FALSE, i_batch |-> 0], "ok">>

\* torch.randperm(n)[:k]
randperm_prefix(n, k) == InjPos(n, Min(k, n))

\* torch.stack(batch) succeeds: a non-empty list of rows of one size
Stackable(rows) ==
    /\ Len(rows) > 0
    /\ \A c \in DOMAIN rows : Len(rows[c]) = Len(rows[1])

\* torch.stack(batch).t().reshape(-1)
stack_t_reshape(rows) ==
    LET w == Len(rows)
        n == Len(rows[1])
    IN  [f \in 1..(w * n) |-> rows[((f - 1) % w) + 1][((f - 1) \div w) + 1]]

\* class_subset[pos] for every pos = torch.randperm(len(class_subset))[:n]
picks(class_subset, n) ==
    {[k \in DOMAIN pos |-> class_subset[pos[k] + 1]] :
        pos \in randperm_prefix(Len(class_subset), n)}

\* the loop over the chosen classes k..: every list of rows it can append
RECURSIVE Rows(_, _, _)
Rows(smp, classes, k) ==
    IF k > Len(classes) THEN {<<>>}
    ELSE {<<r>> \o rest :
             r \in picks(smp.index_list[classes[k] + 1], smp.total_subset_len),
             rest \in Rows(smp, classes, k + 1)}

\* one round of __iter__: the set of outcomes <<status, classes, rows, batch>>
round(smp) ==
    UNION {
      {IF Stackable(rows)
       THEN <<"ok", classes, rows, stack_t_reshape(rows)>>
       ELSE <<"RuntimeError", classes, rows, <<>>>> :
         rows \in Rows(smp, classes, 1)}
      : classes \in randperm_prefix(Len(smp.index_list), smp.ways)}

\* ------------------------------------------------------------- arguments
ShotsArgs == {NoneOpt} \cup {Some(n) : n \in 0..MaxShots}

NoTasksArg == [kind |-> "none", n |-> 0, list |-> <<>>]

ListArg(l) == [kind |-> "list", n |-> 0, list |-> l]

Tasks == SeqsUpTo(Labels, MaxTaskLen)

\* <<classes, tasks>> of the constructions: any classes list with tasks
\* absent, an int or another type; an explicit task list over the default
\* classes; one explicit task over any classes list
ClassesTasksArgs ==
    {<<c, t>> :
        c \in {NoneList} \cup {Some(x) : x \in SeqsUpTo(Labels, MaxClasses)},
        t \in {NoTasksArg, [kind |-> "other", n |-> 0, list |-> <<>>]}
              \cup {[kind |-> "int", n |-> n, list |-> <<>>] : n \in 0..MaxTasks}}
    \cup {<<NoneList, ListArg(l)>> : l \in SeqsUpTo(Tasks, MaxTasks)}
    \cup {<<Some(x), ListArg(<<t>>)>> :
              x \in SeqsUpTo(Labels, MaxClasses), t \in Tasks}

\* record collections holding each of their labels once: all a construction
\* reads of the collection is its label list
DistinctDatasets == {ds \in SeqsUpTo(Labels, MaxLabel + 1) : NoDup(ds)}

\* the sampling runs and the alternate sampler use two labels
GenLabels == {0, 1}

GenShotsArgs == {NoneOpt, Some(MaxShots)}

\* <<ways, tasks>>: every permutation of `ways` classes, or one explicit task
GenWaysTasksArgs ==
    {<<w, NoTasksArg>> : w \in 1..MaxWays}
    \cup {<<1, ListArg(<<t>>)>> : t \in SeqsUpTo(GenLabels, MaxTaskLen)}

\* fixed_classes: None, or a not-None value that is empty (falsy) or not
FixedArgs == {NoneList, Some(<<>>), Some(<<0>>)}

TaskArgs == {NoneList} \cup {Some(t) : t \in SeqsUpTo(GenLabels, MaxTaskLen)}

\* --------------------------------------------------------------- actions
\* MetaDataset(dataset)
NewMetaDataset ==
    /\ ~meta.built
    /\ tg.state = "none"
    /\ meta' = MetaDataset(dataset)
    /\ UNCHANGED <<dataset, tg, ret, sampler, out, trav>>

\* TaskGenerator(dataset, ways, shots, classes, tasks); a raw dataset is
\* wrapped in a MetaDataset first
NewTaskGenerator ==
    /\ tg.state = "none"
    /\ \E waysArg \in 0..MaxWays, shotsArg \in {Some(1)},
          ct \in ClassesTasksArgs :
         LET m == IF meta.built THEN meta ELSE MetaDataset(dataset)
         IN  \E o \in TaskGeneratorInit(m, waysArg, shotsArg, ct[1], ct[2]) :
               /\ tg' = o[1]
               /\ meta' = IF o[2] = "ok" THEN m ELSE meta
               /\ ret' = Ret("init", o[2], 0, 0, <<>>, NoEpisode, 0, ct[2].kind)
    /\ UNCHANGED <<dataset, sampler, out, trav>>

\* sample sharing the cursor with __next__
Sample_advancing ==
    /\ tg.state = "ok"
    /\ \E shotsArg \in ShotsArgs, taskArg \in TaskArgs :
         \E o \in sample(tg, meta, shotsArg, taskArg) :
           /\ ret' = Ret("sample", o[1], 0, o[2], o[3], o[4], 0, "")
           /\ tg' = [tg EXCEPT !.tasks_idx =
                        IF o[1] = "ok" /\ @ < Len(tg.tasks) THEN @ + 1 ELSE @]
    /\ UNCHANGED <<dataset, meta, sampler, out, trav>>

\* tg.sample(shots, task)
Sample ==
    /\ tg.state = "ok"
    /\ \E shotsArg \in ShotsArgs, taskArg \in TaskArgs :
         \E o \in sample(tg, meta, shotsArg, taskArg) :
           ret' = Ret("sample", o[1], 0, o[2], o[3], o[4], 0, "")
    /\ UNCHANGED <<dataset, meta, tg, sampler, out, trav>>

\* iter(tg)
Iter ==
    /\ tg.state = "ok"
    /\ tg' = [tg EXCEPT !.tasks_idx = 0]
    /\ ret' = Ret("iter", "ok", 0, 0, <<>>, NoEpisode, 0, "")
    /\ UNCHANGED <<dataset, meta, sampler, out, trav>>

\* next(tg)
Advance ==
    /\ tg.state = "ok"
    /\ \E o \in next(tg, meta) :
         /\ tg' = [tg EXCEPT !.tasks_idx = o[5]]
         /\ ret' = Ret("next", o[1], tg.tasks_idx, o[2], o[3], o[4], 0, "")
    /\ UNCHANGED <<dataset, meta, sampler, out, trav>>

\* len(tg)
Length ==
    /\ tg.state = "ok"
    /\ ret' = Ret("len", "ok", 0, 0, <<>>, NoEpisode, Len(tg.tasks), "")
    /\ UNCHANGED <<dataset, meta, tg, sampler, out, trav>>

\* NShotKWayTaskSampler(label, episodes, ways, shots, query, fixed_classes)
NewSampler ==
    /\ sampler.state = "none"
    /\ \E episodes \in 0..MaxEpisodes, waysArg \in 0..MaxWays,
          shotsArg \in 0..MaxShots, query \in 0..MaxQuery,
          fixed_classes \in FixedArgs :
         LET o == NShotKWayTaskSamplerInit(dataset, episodes, waysArg,
                                           shotsArg, query, fixed_classes)
         IN  /\ sampler' = o[1]
             /\ out' = [NoOut EXCEPT !.op = "init", !.status = o[2],
                                     !.args = [ways |-> waysArg,
                                               shots |-> shotsArg,
                                               query |-> query,
                                               fixed_classes |-> fixed_classes]]
    /\ UNCHANGED <<dataset, meta, tg, ret, trav>>

\* iter(sampler): a fresh generator positioned before the first round
SamplerIter ==
    /\ sampler.state = "ok"
    /\ sampler' = [sampler EXCEPT !.running = TRUE, !.i_batch = 0]
    /\ out' = [NoOut EXCEPT !.op = "iter"]
    /\ UNCHANGED <<dataset, meta, tg, ret, trav>>

\* next(generator): runs one round up to its yield, or ends the generator
NextBatch ==
    /\ sampler.state = "ok"
    /\ sampler.running
    /\ IF sampler.i_batch >= sampler.episodes
       THEN /\ sampler' = [sampler EXCEPT !.running = FALSE]
            /\ out' = [NoOut EXCEPT !.op = "next", !.status = "StopIteration"]
       ELSE \E o \in round(sampler) :
              /\ sampler' = IF o[1] = "ok"
                            THEN [sampler EXCEPT !.i_batch = @ + 1]
                            ELSE [sampler EXCEPT !.running = FALSE]
              /\ out' = [NoOut EXCEPT !.op = "next", !.status = o[1],
                                      !.classes = o[2], !.rows = o[3],
                                      !.batch = o[4]]
    /\ UNCHANGED <<dataset, meta, tg, ret, trav>>

\* len(sampler)
SamplerLength ==
    /\ sampler.state = "ok"
    /\ out' = [NoOut EXCEPT !.op = "len", !.value = sampler.episodes]
    /\ UNCHANGED <<dataset, meta, tg, ret, sampler, trav>>

\* ---------------------------------------------- callers of one generator
\* two callers traverse the same TaskGenerator
Callers == {1, 2}

\* who called last (0: nobody yet), who has begun a traversal, the positions
\* each caller was returned since its own begin-traversal (mine) and since
\* the last begin-traversal by anyone (got)
NoTrav == [caller |-> 0, begun |-> {},
           mine |-> [c \in Callers |-> {}], got |-> [c \in Callers |-> {}]]

\* a begin-traversal that keeps the position
BeginTraversal_keep ==
    /\ tg.state = "ok"
    /\ \E c \in Callers :
         trav' = [caller |-> c, begun |-> trav.begun \cup {c},
                  mine |-> [trav.mine EXCEPT ![c] = {}],
                  got |-> [d \in Callers |-> {}]]
    /\ tg' = tg
    /\ ret' = Ret("iter", "ok", 0, 0, <<>>, NoEpisode, 0, "")
    /\ UNCHANGED <<dataset, meta, sampler, out>>

\* caller c runs iter(tg): the handle it gets is tg itself
BeginTraversal ==
    /\ tg.state = "ok"
    /\ \E c \in Callers :
         trav' = [caller |-> c, begun |-> trav.begun \cup {c},
                  mine |-> [trav.mine EXCEPT ![c] = {}],
                  got |-> [d \in Callers |-> {}]]
    /\ tg' = [tg EXCEPT !.tasks_idx = 0]
    /\ ret' = Ret("iter", "ok", 0, 0, <<>>, NoEpisode, 0, "")
    /\ UNCHANGED <<dataset, meta, sampler, out>>

\* caller c runs next(handle) on the handle its begin-traversal returned
CallerAdvance ==
    /\ tg.state = "ok"
    /\ \E c \in trav.begun : \E o \in next(tg, meta) :
         /\ tg' = [tg EXCEPT !.tasks_idx = o[5]]
         /\ ret' = Ret("next", o[1], tg.tasks_idx, o[2], o[3], o[4], 0, "")
         /\ trav' = IF o[1] = "ok"
                    THEN [trav EXCEPT !.caller = c,
                                      !.mine[c] = @ \cup {tg.tasks_idx},
                                      !.got[c] = @ \cup {tg.tasks_idx}]
                    ELSE [trav EXCEPT !.caller = c]
    /\ UNCHANGED <<dataset, meta, sampler, out>>

\* ------------------------------------------------------- specifications
Fresh ==
    /\ trav = NoTrav
    /\ meta = NoMeta
    /\ tg = NoTG
    /\ ret = NoRet
    /\ sampler = NoSampler
    /\ out = NoOut

\* the label index: a record collection and its scan
Init ==
    /\ dataset \in SeqsUpTo(Labels, MaxRecords)
    /\ Fresh

Next == NewMetaDataset

Spec == Init /\ [][Next]_vars

\* construction of a TaskGenerator over a raw or an indexed collection
InitCtor ==
    /\ dataset \in DistinctDatasets
    /\ Fresh

NextCtor ==
    \/ NewMetaDataset
    \/ NewTaskGenerator

SpecCtor == InitCtor /\ [][NextCtor]_vars

\* sampling and traversal: starts from a constructed TaskGenerator
InitGen ==
    /\ dataset \in [1..MaxGenRecords -> GenLabels]
    /\ meta = MetaDataset(dataset)
    /\ \E wt \in GenWaysTasksArgs, shotsArg \in GenShotsArgs :
         \E o \in TaskGeneratorInit(meta, wt[1], shotsArg, NoneList, wt[2]) :
           /\ o[2] = "ok"
           /\ tg = o[1]
    /\ ret = NoRet
    /\ sampler = NoSampler
    /\ out = NoOut
    /\ trav = NoTrav

NextGen ==
    \/ Sample
    \/ Iter
    \/ Advance
    \/ Length

SpecGen == InitGen /\ [][NextGen]_vars

\* two callers sharing one constructed TaskGenerator
NextShared ==
    \/ BeginTraversal
    \/ CallerAdvance

SpecShared == InitGen /\ [][NextShared]_vars

\* the alternate sampler over a flat label array (dataset holds the labels)
InitSampler ==
    /\ dataset \in SeqsUpTo(GenLabels, MaxRecords)
    /\ Fresh

NextSampler ==
    \/ NewSampler
    \/ SamplerIter
    \/ NextBatch
    \/ SamplerLength

SpecSampler == InitSampler /\ [][NextSampler]_vars

\* ---------------------------------------------------------------- claims
\* the positions of the label index list of label l
Pop(l) == DictGet(meta.labels_to_indices, l)

\* position (0-based) of the first record carrying label l
FirstPos(l) ==
    CHOOSE p \in 0..(Len(dataset) - 1) :
        dataset[p + 1] = l /\ \A q \in 0..(p - 1) : dataset[q + 1] # l

\* the last call returned an episode
Returned == ret.op \in {"sample", "next"} /\ ret.status = "ok"

\* C9: the per-label position lists of a MetaDataset built by scanning N
\* records partition 0..N-1: a position is in the list of a label exactly
\* when the record at that position carries the label, no label has two
\* lists, each list is increasing, and the label list is the distinct labels
\* in order of first appearance.
C9_LabelIndexPartition ==
    meta.built =>
      LET d == meta.labels_to_indices
          N == Len(dataset)
      IN  /\ Len(d.keys) = Len(d.map)
          /\ NoDup(d.keys)
          /\ \A k \in DOMAIN d.keys :
               /\ \A j \in DOMAIN d.map[k] : d.map[k][j] \in 0..(N - 1)
               /\ \A i, j \in DOMAIN d.map[k] : i < j => d.map[k][i] < d.map[k][j]
               /\ \A p \in 0..(N - 1) :
                    (\E j \in DOMAIN d.map[k] : d.map[k][j] = p)
                       <=> d.keys[k] = dataset[p + 1]
          /\ \A p \in 0..(N - 1) : \E k \in DOMAIN d.keys : d.keys[k] = dataset[p + 1]
          /\ meta.labels = d.keys
          /\ \A i, j \in DOMAIN meta.labels :
               i < j => FirstPos(meta.labels[i]) < FirstPos(meta.labels[j])

\* a scanned collection in which one label's records surround another's
C9_Witness ==
    /\ meta.built
    /\ \E p, q, r \in DOMAIN dataset :
         p < q /\ q < r /\ dataset[p] = dataset[r] /\ dataset[p] # dataset[q]

\* ordered arrangements of k distinct members of S
Arrangements(S, k) == {q \in [1..k -> S] : NoDup(q)}

RECURSIVE Factorial(_)
Factorial(n) == IF n <= 0 THEN 1 ELSE n * Factorial(n - 1)

\* C4 as stated: constructed with tasks absent, the stored task list is
\* exactly the ordered arrangements of `ways` distinct labels of the
\* configured classes, each appearing once, n!/(n-ways)! of them for n
\* classes.  Fails for a classes list that repeats a label.
C4_AllArrangementsOnce ==
    (ret.op = "init" /\ ret.status = "ok" /\ ret.arg = "none") =>
      LET n == Cardinality(Range(tg.classes))
      IN  /\ Range(tg.tasks) = Arrangements(Range(tg.classes), tg.ways)
          /\ NoDup(tg.tasks)
          /\ Len(tg.tasks) = Factorial(n) \div Factorial(n - tg.ways)

\* C4 (amended): constructed with tasks absent and a classes list that holds
\* no label twice, the stored task list is exactly the ordered arrangements
\* of `ways` distinct labels of the classes, each appearing once,
\* n!/(n-ways)! of them for n classes.
C4_ArrangementsOfDistinctClasses ==
    (ret.op = "init" /\ ret.status = "ok" /\ ret.arg = "none"
       /\ NoDup(tg.classes)) =>
      LET n == Len(tg.classes)
      IN  /\ Range(tg.tasks) = Arrangements(Range(tg.classes), tg.ways)
          /\ NoDup(tg.tasks)
          /\ Len(tg.tasks) = Factorial(n) \div Factorial(n - tg.ways)

\* classes [0,1,2] with ways=2 enumerated in full
C4_Witness ==
    /\ ret.op = "init" /\ ret.status = "ok" /\ ret.arg = "none"
    /\ tg.classes = <<0, 1, 2>> /\ tg.ways = 2
    /\ tg.tasks = << <<0, 1>>, <<0, 2>>, <<1, 0>>, <<1, 2>>, <<2, 0>>, <<2, 1>> >>

\* C5 as stated: every task of a constructed TaskGenerator has exactly `ways` members,
\* no duplicate label and only labels of the configured classes (so an
\* explicit list with a task breaking one of these fails at construction).
C5_StoredTasksWellFormed ==
    tg.state = "ok" =>
      \A i \in DOMAIN tg.tasks :
        /\ Len(tg.tasks[i]) = tg.ways
        /\ NoDup(tg.tasks[i])
        /\ Range(tg.tasks[i]) \subseteq Range(tg.classes)

\* the two conditions _check_task does enforce
StoredTasksDistinctSubset ==
    tg.state = "ok" =>
      \A i \in DOMAIN tg.tasks :
        /\ NoDup(tg.tasks[i])
        /\ Range(tg.tasks[i]) \subseteq Range(tg.classes)

\* C1: an episode returned with shots s for a task of w labels has s*w
\* entries, carries each encoded label 0..w-1 exactly s times, and its
\* entries i*s .. (i+1)*s-1 carry encoded label i and are records whose own
\* label is the i-th label of the task.
C1_EpisodeBlocks ==
    Returned =>
      LET e == ret.episode
          s == ret.shots
          t == e.sampled_task
          w == Len(t)
      IN  /\ t = ret.task_to_sample
          /\ Len(e.label) = s * w
          /\ Len(e.data_indices) = s * w
          /\ \A k \in DOMAIN e.label : e.label[k] \in 0..(w - 1)
          /\ \A c \in 0..(w - 1) :
               Cardinality({k \in DOMAIN e.label : e.label[k] = c}) = s
          /\ \A i \in 0..(w - 1) : \A k \in (i * s)..((i + 1) * s - 1) :
               /\ e.label[k + 1] = i
               /\ e.data_indices[k + 1] \in 0..(Len(dataset) - 1)
               /\ dataset[e.data_indices[k + 1] + 1] = t[i + 1]

\* the cursor returned an episode of two classes with two shots each
C1_Witness ==
    /\ ret.op = "next" /\ ret.status = "ok"
    /\ ret.shots = 2
    /\ Len(ret.episode.sampled_task) = 2
    /\ Len(ret.episode.label) = 4

\* C2: in a returned episode the shots positions drawn for one label of the
\* task are pairwise distinct and all belong to that label's position list.
C2_DrawWithoutReplacement ==
    Returned =>
      LET e == ret.episode
          s == ret.shots
          t == e.sampled_task
      IN  /\ Len(e.data_indices) = s * Len(t)
          /\ \A i \in 0..(Len(t) - 1) :
               LET blk == (i * s)..((i + 1) * s - 1)
               IN  /\ \A j, k \in blk :
                        j # k => e.data_indices[j + 1] # e.data_indices[k + 1]
                   /\ \A k \in blk :
                        e.data_indices[k + 1] \in Range(Pop(t[i + 1]))

\* two shots were drawn from a label holding more than two positions
C2_Witness ==
    /\ Returned
    /\ ret.shots = 2
    /\ \E i \in DOMAIN ret.episode.sampled_task :
         Len(Pop(ret.episode.sampled_task[i])) > 2

\* C3: a sample whose task holds a label with fewer positions than shots
\* ends in an error and returns no episode, wherever that label stands in
\* the task.
C3_InsufficientPopulationFails ==
    (/\ ret.op \in {"sample", "next"}
     /\ \E i \in DOMAIN ret.task_to_sample :
          Len(Pop(ret.task_to_sample[i])) < ret.shots)
    => (ret.status = "ValueError" /\ ret.episode = NoEpisode)

\* a direct sample failed on a task whose last label only is too small
C3_Witness ==
    /\ ret.op = "sample" /\ ret.status = "ValueError"
    /\ Len(ret.task_to_sample) = 2
    /\ Len(Pop(ret.task_to_sample[1])) >= ret.shots
    /\ Len(Pop(ret.task_to_sample[2])) < ret.shots
    /\ ret.episode = NoEpisode

\* the configured shots is set and no label of task t has fewer positions
Feasible(t) ==
    /\ ~tg.shots.none
    /\ \A i \in DOMAIN t : Len(Pop(t[i])) >= tg.shots.val

\* C6 as stated: begin-traversal sets the position to 0; an advance at a
\* position i below the task count N succeeds, returns an episode of the
\* stored task i and moves to i+1; an advance at position N signals
\* StopIteration, returns no episode and leaves the position at N.
C6_WalkAlwaysSucceeds ==
    /\ ret.op = "iter" => tg.tasks_idx = 0
    /\ ret.op = "next" =>
         LET N == Len(tg.tasks)
         IN  /\ ret.at \in 0..N
             /\ IF ret.at < N
                THEN /\ ret.status = "ok"
                     /\ ret.episode.sampled_task = tg.tasks[ret.at + 1]
                     /\ tg.tasks_idx = ret.at + 1
                ELSE /\ ret.status = "StopIteration"
                     /\ ret.episode = NoEpisode
                     /\ tg.tasks_idx = N

\* C6 (amended): begin-traversal sets the position to 0; an advance at a
\* position i below N succeeds, returns an episode of the stored task i and
\* moves to i+1 whenever the configured shots is set and no label of that
\* task has fewer than shots positions; an advance at position N signals
\* StopIteration, returns no episode and leaves the position at N.
C6_WalkOfFeasibleTasks ==
    /\ ret.op = "iter" => tg.tasks_idx = 0
    /\ ret.op = "next" =>
         LET N == Len(tg.tasks)
         IN  /\ ret.at \in 0..N
             /\ (ret.at < N /\ Feasible(tg.tasks[ret.at + 1])) =>
                  /\ ret.status = "ok"
                  /\ ret.episode.sampled_task = tg.tasks[ret.at + 1]
                  /\ tg.tasks_idx = ret.at + 1
             /\ ret.at = N =>
                  /\ ret.status = "StopIteration"
                  /\ ret.episode = NoEpisode
                  /\ tg.tasks_idx = N

\* a walk over two feasible tasks reached the end of the sequence
C6_Witness ==
    /\ ret.op = "next" /\ ret.status = "StopIteration"
    /\ Len(tg.tasks) = 2
    /\ tg.tasks_idx = 2
    /\ \A i \in DOMAIN tg.tasks : Feasible(tg.tasks[i])

\* C10: no sample, begin-traversal or advance changes the stored tasks, the
\* classes or the label index; the length query returns the number of stored
\* tasks; a direct sample leaves the cursor position alone.
C10_StoreAndIndexFixed ==
    [][/\ tg'.tasks = tg.tasks
       /\ tg'.classes = tg.classes
       /\ tg'.ways = tg.ways
       /\ meta' = meta
       /\ dataset' = dataset
       /\ ret'.op = "len" => ret'.value = Len(tg.tasks)
       /\ ret'.op = "sample" => tg'.tasks_idx = tg.tasks_idx]_vars

\* the length was asked in the middle of a traversal
C10_Witness ==
    /\ ret.op = "len"
    /\ Len(tg.tasks) = 2
    /\ tg.tasks_idx = 1
    /\ ret.value = 2

\* C7 as stated: every batch yielded has exactly ways*(shots+query)
\* positions, the one at flat index j*ways + c being the j-th position drawn
\* for the c-th chosen class; the chosen classes are pairwise distinct, and
\* the positions drawn for one class are pairwise distinct members of that
\* class's group.
C7_InterleavedFullBatch ==
    (out.op = "next" /\ out.status = "ok") =>
      LET w == sampler.ways
          n == sampler.total_subset_len
      IN  /\ Len(out.batch) = w * n
          /\ Len(out.classes) = w
          /\ NoDup(out.classes)
          /\ Len(out.rows) = w
          /\ \A c \in 0..(w - 1) :
               /\ Len(out.rows[c + 1]) = n
               /\ NoDup(out.rows[c + 1])
               /\ \A j \in 0..(n - 1) :
                    /\ out.batch[j * w + c + 1] = out.rows[c + 1][j + 1]
                    /\ out.rows[c + 1][j + 1] \in 0..(Len(dataset) - 1)
                    /\ dataset[out.rows[c + 1][j + 1] + 1] = out.classes[c + 1]

\* the interleaved layout of the batches drawn from groups that all hold at
\* least shots+query positions
InterleavedWhenGroupsSuffice ==
    (/\ out.op = "next" /\ out.status = "ok"
     /\ \A c \in DOMAIN out.classes :
          Len(sampler.index_list[out.classes[c] + 1]) >= sampler.total_subset_len)
    => C7_InterleavedFullBatch

\* the arguments other than fixed_classes are valid for the label array
ValidSamplerArgs ==
    /\ Len(dataset) > 0
    /\ out.args.shots >= 1
    /\ out.args.ways <= Cardinality(Range(dataset))

\* C8: constructing the sampler with fixed_classes None and otherwise valid
\* arguments succeeds; constructing it with any not-None fixed_classes fails
\* with an error whatever the value holds and whatever the other arguments
\* are; a constructed sampler, and so any that is iterated, carries None.
C8_FixedClassesRejected ==
    /\ out.op = "init" =>
         /\ (out.args.fixed_classes.none /\ ValidSamplerArgs) =>
              (out.status = "ok" /\ sampler.state = "ok")
         /\ ~out.args.fixed_classes.none =>
              (out.status = "ValueError" /\ sampler.state = "failed")
    /\ sampler.state = "ok" => sampler.fixed_classes.none
    /\ (sampler.running \/ out.op \in {"iter", "next", "len"}) =>
         (sampler.state = "ok" /\ sampler.fixed_classes.none)

\* an empty (falsy) fixed_classes with valid other arguments was refused
C8_Witness ==
    /\ out.op = "init"
    /\ ~out.args.fixed_classes.none
    /\ out.args.fixed_classes.val = <<>>
    /\ ValidSamplerArgs
    /\ out.status = "ValueError"
    /\ sampler.state = "failed"

\* the group of every id 0..max(label) holds exactly the positions carrying
\* that id, in increasing order; an id no record carries has an empty group
SamplerGroupsBuilt ==
    sampler.state = "ok" =>
      /\ Len(sampler.index_list) = MaxOf(Range(dataset)) + 1
      /\ \A i \in 0..(Len(sampler.index_list) - 1) :
           LET g == sampler.index_list[i + 1]
           IN  /\ \A j, k \in DOMAIN g : j < k => g[j] < g[k]
               /\ \A p \in 0..(Len(dataset) - 1) :
                    (\E j \in DOMAIN g : g[j] = p) <=> dataset[p + 1] = i

\* some class chosen by the last round has fewer than shots+query positions
ChoseShortGroup ==
    /\ out.op = "next"
    /\ out.status # "StopIteration"
    /\ \E c \in DOMAIN out.classes :
         Len(sampler.index_list[out.classes[c] + 1]) < sampler.total_subset_len

\* C11 as stated: groups are built for every id 0..max(label), an absent id
\* giving an empty group, and a round that chooses an empty group, or one
\* with fewer than shots+query positions, fails with an error and yields no
\* batch, for every ways >= 1.
C11_ShortGroupFails ==
    /\ SamplerGroupsBuilt
    /\ ChoseShortGroup => (out.status = "RuntimeError" /\ out.batch = <<>>)

\* what the code does enforce: a round fails when the rows drawn for its
\* classes differ in length
UnequalRowsFail ==
    (/\ out.op = "next"
     /\ out.status # "StopIteration"
     /\ \E c, d \in DOMAIN out.rows : Len(out.rows[c]) # Len(out.rows[d]))
    => (out.status = "RuntimeError" /\ out.batch = <<>>)

\* C12: the traversal position is one value shared by every caller of a
\* TaskGenerator.  A begin-traversal hands back the generator itself with the
\* position at 0 and nothing else changed; an advance reads the shared
\* position, so the first advance after another caller's begin-traversal
\* reads position 0, and a caller that had already been returned position 0
\* in its own pass is returned the task at position 0 again; between two
\* begin-traversals no position is returned to both callers, and when both
\* were returned a task neither was returned all N.
C12_SharedCursor ==
    [][LET N == Len(tg.tasks)
           c == trav'.caller
       IN  /\ ret'.op = "iter" => tg' = [tg EXCEPT !.tasks_idx = 0]
           /\ ret'.op = "next" => ret'.at = tg.tasks_idx
           /\ (ret.op = "iter" /\ ret'.op = "next") => ret'.at = 0
           /\ (/\ ret.op = "iter" /\ ret'.op = "next"
               /\ c # trav.caller
               /\ 0 \in trav.mine[c])
              => /\ ret'.status = "ok"
                 /\ ret'.at = 0
                 /\ ret'.episode.sampled_task = tg.tasks[1]
                 /\ tg'.tasks_idx = 1
           /\ \A a, b \in Callers :
                a # b => trav'.got[a] \cap trav'.got[b] = {}
           /\ (\A a \in Callers : trav'.got[a] # {}) =>
                (\A a \in Callers : trav'.got[a] # 0..(N - 1))]_vars

\* one caller walked both tasks, the other began a traversal, and then the
\* first was returned position 0 again and the second position 1
C12_Witness ==
    /\ Len(tg.tasks) = 2
    /\ tg.tasks_idx = 2
    /\ ret.op = "next" /\ ret.status = "ok" /\ ret.at = 1
    /\ \E a, b \in Callers :
         /\ a # b
         /\ trav.caller = b
         /\ trav.begun = {a, b}
         /\ trav.mine[a] = {0, 1} /\ trav.got[a] = {0}
         /\ trav.mine[b] = {1} /\ trav.got[b] = {1}

\* the position is below the task count and the task there cannot be sampled
Stuck ==
    /\ tg.state = "ok"
    /\ tg.tasks_idx < Len(tg.tasks)
    /\ ~Feasible(tg.tasks[tg.tasks_idx + 1])

\* C13: an advance whose sampling fails with an error other than
\* StopIteration leaves the position where it was, on a task that cannot be
\* sampled; an advance made while the position is on such a task fails with
\* ValueError, returns no episode, signals no StopIteration and leaves the
\* position there; the stored tasks and the label index never change, and
\* the position changes only by a begin-traversal or by +1 on a successful
\* advance and stays within 0..N - so until a begin-traversal every later
\* advance retries the same task and fails again.
C13_FailedAdvanceKeepsPosition ==
    [][LET N == Len(tg.tasks)
       IN  /\ tg'.tasks_idx \in 0..N
           /\ tg'.tasks = tg.tasks
           /\ meta' = meta
           /\ tg'.tasks_idx # tg.tasks_idx =>
                \/ ret'.op = "iter" /\ tg'.tasks_idx = 0
                \/ ret'.op = "next" /\ ret'.status = "ok"
           /\ ret'.op = "next" =>
                /\ ret'.at = tg.tasks_idx
                /\ tg'.tasks_idx = IF ret'.status = "ok"
                                   THEN tg.tasks_idx + 1
                                   ELSE tg.tasks_idx
                /\ ret'.status \notin {"ok", "StopIteration"} => Stuck'
                /\ Stuck =>
                     /\ ret'.status = "ValueError"
                     /\ ret'.episode = NoEpisode
                     /\ tg'.tasks_idx = tg.tasks_idx]_vars

\* the first task was walked and the advance on the second, whose class has
\* too few records, failed and left the position on it
C13_Witness ==
    /\ ret.op = "next"
    /\ ret.status = "ValueError"
    /\ ret.at = 1
    /\ tg.tasks_idx = 1
    /\ Len(tg.tasks) = 2
    /\ ~tg.shots.none
    /\ Feasible(tg.tasks[1])
    /\ ~Feasible(tg.tasks[2])
====
